---- MODULE Spec2Model ----
(***************************************************************************)
(* Model of the data-preparation part of final_sar.py: tile extraction     *)
(* around labels, class balancing by rejection sampling, conversion to     *)
(* arrays, min/max normalization and augmentation.  The script is a        *)
(* linear sequence of notebook cells; pc is the position in that sequence. *)
(***************************************************************************)
EXTENDS Integers, Sequences, FiniteSets, TLC

(* half window size: the literal 128 of the slices and of randint *)
W == 128
(* the no-data value the tiles' minimum is compared with *)
NODATA == -32768

(* bounds of the model: length of the filtered label tables *)
MaxLabels == 3
MaxValLabels == 1

----------------------------------------------------------------------------
(* Rasters.  A raster is a rows x cols grid; it is kept sparse: every      *)
(* pixel holds bg except the pixels listed in px.                          *)

Px(r, c, v) == [r |-> r, c |-> c, v |-> v]

(* a scene with one no-data pixel in its corner and one bright pixel *)
scene_big == [rows |-> 387, cols |-> 257, bg |-> 0,
              px |-> {Px(0, 0, NODATA), Px(258, 128, 9)}]
(* a scene without sensor coverage: every pixel is the no-data value *)
scene_nodata == [rows |-> 257, cols |-> 257, bg |-> NODATA, px |-> {}]

val_a == [rows |-> 260, cols |-> 260, bg |-> 2,
          px |-> {Px(259, 259, NODATA), Px(128, 128, 7), Px(10, 10, 5)}]
val_b == [rows |-> 260, cols |-> 260, bg |-> 4, px |-> {}]

Rasters == {scene_big, scene_nodata}

(* rows of the label tables after the filters of lines 80-85 *)
Row(id, row, col, v) ==
    [scene_id |-> id, detect_scene_row |-> row, detect_scene_column |-> col,
     is_vessel |-> v]

TrainRows == {Row("s1", 258, 128, TRUE),  Row("s1", 130, 128, FALSE),
              Row("s1", 260, 128, FALSE), Row("s1", 100, 128, TRUE),
              Row("s2", 258, 128, TRUE),  Row("s2", 130, 128, TRUE)}
ValRows == {Row("v1", 128, 128, TRUE), Row("v2", 132, 132, FALSE)}

(* the value of r before the first loop binds it *)
NoRow == Row("", 0, 0, FALSE)

(* tables: sequences of distinct rows, at most n long *)
Tables(rows, n) ==
    UNION {{t \in [1..k -> rows] : \A a, b \in 1..k : a # b => t[a] # t[b]}
           : k \in 0..n}

----------------------------------------------------------------------------
(* Helpers *)

Min(a, b) == IF a < b THEN a ELSE b
Max(a, b) == IF a > b THEN a ELSE b
SetMin(S) == CHOOSE m \in S : \A n \in S : m <= n
SetMax(S) == CHOOSE m \in S : \A n \in S : m >= n
Abs(a) == IF a < 0 THEN -a ELSE a

RECURSIVE Sum(_)
Sum(s) == IF s = <<>> THEN 0 ELSE Head(s) + Sum(Tail(s))

(* pandas unique(): the distinct scene ids in order of first appearance *)
Unique(ids) ==
    LET first == {k \in 1..Len(ids) : \A j \in 1..(k - 1) : ids[j] # ids[k]}
    IN [n \in 1..Cardinality(first) |->
          ids[CHOOSE k \in first : Cardinality({j \in first : j < k}) = n - 1]]

SceneIds(df) == Unique([k \in 1..Len(df) |-> df[k].scene_id])

(* df[df['scene_id'] == id]: the rows of one scene, in table order *)
RowsOf(df, id) == LET Is(rw) == rw.scene_id = id IN SelectSeq(df, Is)

(* {id : list[i] for i, id in enumerate(ids)}: id -> position in the list *)
ScenesDict(ids) == [id \in {ids[k] : k \in 1..Len(ids)} |->
                      CHOOSE k \in 1..Len(ids) : ids[k] = id]

(* one bound of a[start:stop] on an axis of length n, as numpy resolves it: *)
(* a negative index counts from the end, and both ends are clamped          *)
SliceIndex(k, n) == IF k < 0 THEN Max(k + n, 0) ELSE Min(k, n)

(* scene[row-128:row+128, col-128:col+128]: a view of raster number `of` *)
Subset(of, raster, row, col) ==
    [of |-> of,
     r0 |-> SliceIndex(row - W, raster.rows),
     r1 |-> SliceIndex(row + W, raster.rows),
     c0 |-> SliceIndex(col - W, raster.cols),
     c1 |-> SliceIndex(col + W, raster.cols),
     aug |-> "none"]

Height(t) == Max(t.r1 - t.r0, 0)
Width(t) == Max(t.c1 - t.c0, 0)
Size(t) == Height(t) * Width(t)

(* the listed pixels of the raster that lie in the view *)
PxIn(t, raster) ==
    {p \in raster.px : /\ t.r0 <= p.r /\ p.r < t.r1
                       /\ t.c0 <= p.c /\ p.c < t.c1}

(* the pixel values of a non-empty view *)
Values(t, raster) ==
    {p.v : p \in PxIn(t, raster)} \cup
    (IF Size(t) > Cardinality(PxIn(t, raster)) THEN {raster.bg} ELSE {})

(* subset.min() *)
TileMin(t, raster) == SetMin(Values(t, raster))
TileMax(t, raster) == SetMax(Values(t, raster))

----------------------------------------------------------------------------
VARIABLES
    train_scenes_list,  \* the training rasters, in the order of the list
    train_y_df,         \* filtered training label table
    val_y_df,           \* filtered validation label table
    training_scene_ids, \* the scene ids of each table, in order of appearance
    validation_scene_ids,
    train_scenes,       \* scene id -> raster, as its position in the list
    val_scenes,
    pc,                 \* position in the script
    err,                \* the exception that ended the run, or "none"
    si,                 \* outer loop: index of the current scene
    ri,                 \* inner loop: index of the current row of that scene
    r,                  \* the row variable of the extraction loops (global)
    train_X, train_y,   \* training tiles and labels
    val_X, val_y,       \* validation tiles and labels
    num_img_to_add,     \* class imbalance computed before balancing
    i,                  \* iterations completed by range(...) for this scene
    train_norm,         \* how the pixels of train_X relate to the tiles' pixels
    val_norm,
    train_src,          \* history: where each entry of train_X came from
    val_src             \* history: where each entry of val_X came from

inputs == <<train_scenes_list, train_y_df, val_y_df, training_scene_ids,
            validation_scene_ids, train_scenes, val_scenes>>
train_set == <<train_X, train_y, train_src>>
val_set == <<val_X, val_y, val_src>>
norms == <<train_norm, val_norm>>

vars == <<inputs, pc, err, si, ri, r, train_set, val_set, num_img_to_add,
          i, norms>>

val_scenes_list == <<val_a, val_b>>

(* the scene whose file each entry of the two lists was opened from: the *)
(* lists are written in a fixed order of scene names                     *)
train_files == <<"s1", "s2">>
val_files == <<"v1", "v2">>

(* the array train_scenes[id], val_scenes[id] *)
TrainScene(id) == train_scenes_list[train_scenes[id]]
ValScene(id) == val_scenes_list[val_scenes[id]]

Raw == [kind |-> "raw", m |-> 0, M |-> 0]
Src(by, id, row, col) == [by |-> by, id |-> id, row |-> row, col |-> col]

Init ==
    /\ train_scenes_list \in [1..2 -> Rasters]
    /\ train_y_df \in Tables(TrainRows, MaxLabels)
    /\ val_y_df \in Tables(ValRows, MaxValLabels)
    /\ training_scene_ids = SceneIds(train_y_df)
    /\ validation_scene_ids = SceneIds(val_y_df)
    /\ train_scenes = ScenesDict(training_scene_ids)
    /\ val_scenes = ScenesDict(validation_scene_ids)
    /\ pc = "train_extract"
    /\ err = "none"
    /\ si = 1 /\ ri = 1
    /\ r = NoRow
    /\ train_X = <<>> /\ train_y = <<>> /\ train_src = <<>>
    /\ val_X = <<>> /\ val_y = <<>> /\ val_src = <<>>
    /\ num_img_to_add = 0
    /\ i = 0
    /\ train_norm = Raw /\ val_norm = Raw

(* the script is at `at` and no exception has ended it *)
Running(at) == pc = at /\ err = "none"

(* an uncaught exception ends the run where it is raised *)
Raise(e) == err' = e /\ pc' = pc

(* every tile labelled as a vessel *)
Label_AlwaysVessel(rw) == 1

(* label = 1 if r.is_vessel else 0 *)
Label(rw) == IF rw.is_vessel THEN 1 ELSE 0

(* the test made on the largest pixel instead of the smallest *)
HasData_OnMax(t, raster) == TileMax(t, raster) # NODATA

(* if subset.min() != -32768.0 *)
HasData(t, raster) == TileMin(t, raster) # NODATA

(* the position after the current row: next row of the scene, or the first *)
(* row of the next scene                                                     *)
Advance(df, ids) ==
    IF ri < Len(RowsOf(df, ids[si]))
    THEN si' = si /\ ri' = ri + 1
    ELSE si' = si + 1 /\ ri' = 1

(* one iteration of the inner loop of the training extraction *)
TrainExtract ==
    /\ Running("train_extract")
    /\ si <= Len(training_scene_ids)
    /\ LET id == training_scene_ids[si]
           scene == TrainScene(id)
           rw == RowsOf(train_y_df, id)[ri]
           row == rw.detect_scene_row
           col == rw.detect_scene_column
           subset == Subset(train_scenes[id], scene, row, col)
       IN /\ r' = rw
          /\ IF Size(subset) = 0
             THEN /\ Raise("ValueError: zero-size array")   \* subset.min()
                  /\ UNCHANGED <<si, ri, train_set>>
             ELSE /\ IF HasData(subset, scene)
                     THEN /\ train_X' = Append(train_X, subset)
                          /\ train_y' = Append(train_y, Label(rw))
                          /\ train_src' = Append(train_src, Src("label", id, row, col))
                     ELSE UNCHANGED train_set
                  /\ Advance(train_y_df, training_scene_ids)
                  /\ UNCHANGED <<pc, err>>
    /\ UNCHANGED <<inputs, val_set, num_img_to_add, i, norms>>

(* the candidate tested against the row the loop is at *)
ImgContainsLabel_EachRow(cx, cy, id) ==
    \E k \in 1..Len(RowsOf(train_y_df, id)) :
        LET label_row == RowsOf(train_y_df, id)[k].detect_scene_row
            label_col == RowsOf(train_y_df, id)[k].detect_scene_column
        IN /\ label_row > cx - W /\ label_row < cx + W
           /\ label_col > cy - W /\ label_col < cy + W

(* img_contains_label(x, y, id): the loop runs over the rows of scene id, *)
(* but its body reads the global r                                         *)
ImgContainsLabel(cx, cy, id) ==
    \E k \in 1..Len(RowsOf(train_y_df, id)) :
        LET label_row == r.detect_scene_row
            label_col == r.detect_scene_column
        IN /\ label_row > cx - W /\ label_row < cx + W
           /\ label_col > cy - W /\ label_col < cy + W

(* sum(train_y)-(len(train_y)-sum(train_y)) *)
NumImgToAdd(labels) == Sum(labels) - (Len(labels) - Sum(labels))

ComputeNumImg ==
    /\ Running("train_extract")
    /\ si > Len(training_scene_ids)
    /\ num_img_to_add' = NumImgToAdd(train_y)
    /\ pc' = "balance"
    /\ si' = 1
    /\ i' = 0
    /\ UNCHANGED <<inputs, err, ri, r, train_set, val_set, norms>>

(* the quota recomputed from the labels as they are now *)
Quota_Recomputed ==
    Max((Sum(train_y) - (Len(train_y) - Sum(train_y))) \div Len(training_scene_ids), 0)

(* the quota without the division by the number of scenes *)
Quota_NoDivision == Max(num_img_to_add, 0)

(* len(range(num_img_to_add // len(train_scenes))) *)
Quota == Max(num_img_to_add \div Len(training_scene_ids), 0)

(* the upper end included, as random.randint does *)
Randint_Inclusive(low, high) == low .. high

(* np.random.randint(low, high): low <= n < high *)
Randint(low, high) == low .. (high - 1)

(* One pass of the while True loop: draw a candidate, reject or append.    *)
(* The names x, y and subset are written by every pass and read only by    *)
(* the pass that wrote them, so they are bound here and kept in no         *)
(* variable: a rejected pass leaves the state as it was.                   *)
BalanceDraw ==
    /\ Running("balance")
    /\ si <= Len(training_scene_ids)
    /\ i < Quota
    /\ LET id == training_scene_ids[si]
           scene == TrainScene(id)
           max_x == scene.rows
           max_y == scene.cols
       IN \E cx \in Randint(W, max_x - W), cy \in Randint(W, max_y - W) :
            LET subset == Subset(train_scenes[id], scene, cx, cy)
            IN IF ImgContainsLabel(cx, cy, id) \/ ~HasData(subset, scene)
               THEN UNCHANGED <<train_set, i>>
               ELSE /\ train_X' = Append(train_X, subset)
                    /\ train_y' = Append(train_y, 0)
                    /\ train_src' = Append(train_src, Src("sampler", id, cx, cy))
                    /\ i' = i + 1
    /\ UNCHANGED <<inputs, pc, err, si, ri, r, val_set, num_img_to_add, norms>>

(* range(...) is exhausted for this scene: on to the next scene *)
BalanceNextScene ==
    /\ Running("balance")
    /\ si <= Len(training_scene_ids)
    /\ i >= Quota
    /\ si' = si + 1
    /\ i' = 0
    /\ UNCHANGED <<inputs, pc, err, ri, r, train_set, val_set, num_img_to_add,
                   norms>>

(* tiles of different shapes do not stack into one array *)
Ragged(X) == \E a, b \in 1..Len(X) :
                Height(X[a]) # Height(X[b]) \/ Width(X[a]) # Width(X[b])

(* np.array(list): a list of tiles of different shapes is refused by some *)
(* numpy versions and becomes an array of objects in others               *)
ToArray(X, next) ==
    IF Ragged(X)
    THEN \/ Raise("ValueError: inhomogeneous shape")
         \/ pc' = next /\ err' = err
    ELSE pc' = next /\ err' = err

TrainArray ==
    /\ Running("balance")
    /\ si > Len(training_scene_ids)
    /\ ToArray(train_X, "val_extract")
    /\ si' = 1 /\ ri' = 1
    /\ UNCHANGED <<inputs, r, train_set, val_set, num_img_to_add, i, norms>>

(* one iteration of the inner loop of the validation extraction *)
ValExtract ==
    /\ Running("val_extract")
    /\ si <= Len(validation_scene_ids)
    /\ LET id == validation_scene_ids[si]
           scene == ValScene(id)
           rw == RowsOf(val_y_df, id)[ri]
           row == rw.detect_scene_row
           col == rw.detect_scene_column
           subset == Subset(val_scenes[id], scene, row, col)
       IN /\ r' = rw
          /\ IF Size(subset) = 0
             THEN /\ Raise("ValueError: zero-size array")   \* subset.min()
                  /\ UNCHANGED <<si, ri, val_set>>
             ELSE /\ IF HasData(subset, scene)
                     THEN /\ val_X' = Append(val_X, subset)
                          /\ val_y' = Append(val_y, Label(rw))
                          /\ val_src' = Append(val_src, Src("label", id, row, col))
                     ELSE UNCHANGED val_set
                  /\ Advance(val_y_df, validation_scene_ids)
                  /\ UNCHANGED <<pc, err>>
    /\ UNCHANGED <<inputs, train_set, num_img_to_add, i, norms>>

ValArray ==
    /\ Running("val_extract")
    /\ si > Len(validation_scene_ids)
    /\ ToArray(val_X, "normalize_train")
    /\ UNCHANGED <<inputs, si, ri, r, train_set, val_set, num_img_to_add, i, norms>>

(* X.min() and X.max() over the whole array *)
ArrayMin(X, list) == SetMin({TileMin(X[k], list[X[k].of]) : k \in 1..Len(X)})
ArrayMax(X, list) == SetMax({TileMax(X[k], list[X[k].of]) : k \in 1..Len(X)})

(* (X - X.min()) / (X.max() - X.min()): a float array divided by 0.0 gives *)
(* nan in every pixel, with a warning and no exception                     *)
Normalized(X, list) ==
    LET m == ArrayMin(X, list)
        M == ArrayMax(X, list)
    IN IF M - m = 0
       THEN [kind |-> "nan", m |-> m, M |-> M]
       ELSE [kind |-> "scaled", m |-> m, M |-> M]

(* the minimum not subtracted: the pixel divided by the range alone *)
Pixel_NoShift(x, norm) == [num |-> x, den |-> norm.M - norm.m]

(* one pixel of (X - X.min()) / (X.max() - X.min()): the quotient of the *)
(* two differences, kept as the fraction num/den                         *)
Pixel(x, norm) == [num |-> x - norm.m, den |-> norm.M - norm.m]

(* a zero-size array has no minimum, an array of unequal tiles no order *)
NormalizeTrain ==
    /\ Running("normalize_train")
    /\ IF Len(train_X) = 0 \/ Ragged(train_X)
       THEN Raise("ValueError: min of array") /\ UNCHANGED train_norm
       ELSE /\ train_norm' = Normalized(train_X, train_scenes_list)
            /\ pc' = "normalize_val"
            /\ UNCHANGED err
    /\ UNCHANGED <<inputs, si, ri, r, train_set, val_set, num_img_to_add, i, val_norm>>

NormalizeVal ==
    /\ Running("normalize_val")
    /\ IF Len(val_X) = 0 \/ Ragged(val_X)
       THEN Raise("ValueError: min of array") /\ UNCHANGED val_norm
       ELSE /\ val_norm' = Normalized(val_X, val_scenes_list)
            /\ pc' = "augment"
            /\ UNCHANGED err
    /\ UNCHANGED <<inputs, si, ri, r, train_set, val_set, num_img_to_add, i, train_norm>>

(* the random transformation the augmentation layers draw *)
AugModes == {"rotate_zoom", "flip_h", "flip_v", "flip_hv"}

(* data_augmentation(train_X): one synthetic tile per tile *)
DataAugmentation(X, mode) == [k \in 1..Len(X) |-> [X[k] EXCEPT !.aug = mode]]

(* the originals dropped: only the second array is kept *)
Concatenate_SecondOnly(a, b) == b

(* np.concatenate((a, b)) *)
Concatenate(a, b) == a \o b

Augment ==
    /\ Running("augment")
    /\ \E mode \in AugModes :
         train_X' = Concatenate(train_X, DataAugmentation(train_X, mode))
    /\ train_y' = Concatenate(train_y, train_y)
    /\ train_src' = train_src \o
                    [k \in 1..Len(train_src) |-> [train_src[k] EXCEPT !.by = "augment"]]
    /\ pc' = "done"
    /\ UNCHANGED <<inputs, err, si, ri, r, val_set, num_img_to_add, i, norms>>

Next ==
    \/ TrainExtract
    \/ ComputeNumImg
    \/ BalanceDraw
    \/ BalanceNextScene
    \/ TrainArray
    \/ ValExtract
    \/ ValArray
    \/ NormalizeTrain
    \/ NormalizeVal
    \/ Augment

Spec == Init /\ [][Next]_vars

(* a candidate that passes both tests is appended *)
Accepted == BalanceDraw /\ i' = i + 1

(* The script runs to its end: it always takes its next step, and a        *)
(* candidate that can be accepted is eventually drawn.                     *)
FairSpec == Spec /\ WF_vars(Next) /\ WF_vars(Accepted)

----------------------------------------------------------------------------
(* Properties *)

Count1 == Sum(train_y)
Count0 == Len(train_y) - Sum(train_y)
NumScenes == Len(training_scene_ids)

(* the entries of train_X that came from label rows / from the sampler *)
FromLabels == {k \in 1..Len(train_src) : train_src[k].by = "label"}
FromSampler == {k \in 1..Len(train_src) : train_src[k].by = "sampler"}

(* #positive - #negative among the tiles cut around labels *)
LabelImbalance ==
    Cardinality({k \in FromLabels : train_y[k] = 1}) -
    Cardinality({k \in FromLabels : train_y[k] = 0})

(* the balancing loop has run over all scenes, augmentation has not run *)
BalancingDone ==
    \/ pc = "balance" /\ si > NumScenes
    \/ pc \in {"val_extract", "normalize_train", "normalize_val", "augment"}

(* C1, as stated: once the balancing loop has completed, the numbers of    *)
(* label-1 and label-0 entries differ by at most the number of scenes, for *)
(* every input, also when non-vessel tiles outnumber vessel tiles.         *)
C1_BalancedForEveryInput ==
    BalancingDone => Abs(Count1 - Count0) <= NumScenes

(* C1, amended: once the balancing loop has completed, and provided the    *)
(* vessel tiles were at least as many as the non-vessel tiles before       *)
(* balancing, the numbers of label-1 and label-0 entries differ by at most *)
(* the number of scenes.                                                   *)
C1_BalancedWhenVesselsDominate ==
    (BalancingDone /\ LabelImbalance >= 0) => Abs(Count1 - Count0) <= NumScenes

(* the sampler has added tiles to two scenes and one vessel tile is left over *)
C1_Witness ==
    /\ BalancingDone
    /\ NumScenes = 2
    /\ LabelImbalance = 3
    /\ Cardinality(FromSampler) = 2
    /\ Count1 - Count0 = 1

----------------------------------------------------------------------------
(* the pixels of the raster inside [row-W, row+W) x [col-W, col+W), taken *)
(* directly from the coordinates                                          *)
InWindow(p, row, col) ==
    /\ row - W <= p.r /\ p.r < row + W
    /\ col - W <= p.c /\ p.c < col + W

WindowInside(raster, row, col) ==
    /\ 0 <= row - W /\ row + W <= raster.rows
    /\ 0 <= col - W /\ col + W <= raster.cols

(* number of cells of the window that lie in the raster *)
CellsInside(raster, row, col) ==
    Max(Min(row + W, raster.rows) - Max(row - W, 0), 0) *
    Max(Min(col + W, raster.cols) - Max(col - W, 0), 0)

(* some pixel of the raster inside the window holds the no-data value *)
WindowHasNoData(raster, row, col) ==
    LET listed == {p \in raster.px : InWindow(p, row, col)}
    IN \/ \E p \in listed : p.v = NODATA
       \/ raster.bg = NODATA /\ CellsInside(raster, row, col) > Cardinality(listed)

(* C2, as stated: no tile appended by the sampler has its centre within W  *)
(* pixels, on both axes, of a label of its own scene.                      *)
C2_SamplerClearOfLabels ==
    \A k \in FromSampler :
        LET rows == RowsOf(train_y_df, train_src[k].id)
        IN \A n \in 1..Len(rows) :
              ~ /\ Abs(rows[n].detect_scene_row - train_src[k].row) < W
                /\ Abs(rows[n].detect_scene_column - train_src[k].col) < W

(* C3: no tile of the training or validation set holds the no-data value, *)
(* and no label row whose window holds it has contributed a tile.         *)
C3_NoTileWithNoData ==
    /\ \A k \in FromLabels \cup FromSampler :
          /\ NODATA \notin Values(train_X[k], train_scenes_list[train_X[k].of])
          /\ ~WindowHasNoData(TrainScene(train_src[k].id),
                              train_src[k].row, train_src[k].col)
    /\ \A k \in 1..Len(val_X) :
          /\ NODATA \notin Values(val_X[k], val_scenes_list[val_X[k].of])
          /\ ~WindowHasNoData(ValScene(val_src[k].id),
                              val_src[k].row, val_src[k].col)
    /\ Len(train_y) = Len(train_X) /\ Len(val_y) = Len(val_X)

(* a label row whose window holds the no-data value has been passed over, *)
(* and a tile has been kept                                               *)
C3_Witness ==
    /\ pc = "balance"
    /\ Len(train_X) > 0
    /\ \E n \in 1..Len(train_y_df) :
          /\ WindowHasNoData(TrainScene(train_y_df[n].scene_id),
                             train_y_df[n].detect_scene_row,
                             train_y_df[n].detect_scene_column)
          /\ \A k \in 1..Len(train_src) : train_src[k].id # train_y_df[n].scene_id

(* the run has ended: the script reached its end or an exception ended it *)
Terminated == pc = "done" \/ err # "none"

(* C4, as stated: the sampler always terminates: whenever the script is in *)
(* the balancing loop it eventually leaves it, by finishing the loop or by *)
(* reporting an error.                                                     *)
C4_SamplerTerminates == Running("balance") ~> ~Running("balance")

(* C5, as stated: a label whose window is not wholly inside its scene      *)
(* raises no error and contributes no tile, so that every tile is 256x256. *)
C5_OutOfBoundsExcluded ==
    /\ pc \in {"train_extract", "val_extract"} => err = "none"
    /\ \A k \in FromLabels :
          WindowInside(TrainScene(train_src[k].id), train_src[k].row, train_src[k].col)
    /\ \A k \in 1..Len(val_src) :
          WindowInside(ValScene(val_src[k].id), val_src[k].row, val_src[k].col)
    /\ \A k \in 1..Len(train_X) : Height(train_X[k]) = 2 * W /\ Width(train_X[k]) = 2 * W
    /\ \A k \in 1..Len(val_X) : Height(val_X[k]) = 2 * W /\ Width(val_X[k]) = 2 * W

(* the sampler's tiles taken from the scene with this id *)
SampledFrom(id) == {k \in FromSampler : train_src[k].id = id}

(* the range(...) loop of scene number s has run to its end *)
SceneBalanced(s) ==
    \/ pc = "balance" /\ s < si
    \/ pc \notin {"train_extract", "balance"}

(* C6: when the vessel tiles are at least as many as the others, every     *)
(* scene whose turn in the balancing loop is over has received exactly     *)
(* floor(imbalance / number of scenes) label-0 tiles cut from that scene,  *)
(* the imbalance being the one of the tiles cut around labels; no scene    *)
(* ever holds more.                                                        *)
C6_QuotaPerScene ==
    LabelImbalance >= 0 =>
      \A s \in 1..NumScenes :
         LET id == training_scene_ids[s]
             quota == LabelImbalance \div NumScenes
         IN /\ Cardinality(SampledFrom(id)) <= quota
            /\ SceneBalanced(s) => Cardinality(SampledFrom(id)) = quota
            /\ \A k \in SampledFrom(id) :
                  /\ train_y[k] = 0
                  /\ train_X[k].of = train_scenes[id]
                  /\ train_X[k].r0 = train_src[k].row - W
                  /\ train_X[k].c0 = train_src[k].col - W

(* two scenes have each received their one tile, one vessel tile is over *)
C6_Witness ==
    /\ pc = "val_extract"
    /\ NumScenes = 2
    /\ LabelImbalance = 3
    /\ \A s \in 1..NumScenes : Cardinality(SampledFrom(training_scene_ids[s])) = 1

(* C7: augmentation doubles the training set: tiles and labels are twice   *)
(* as many, the first half is what it was, and the labels of the second    *)
(* half repeat the labels of the first.                                    *)
C7_AugmentationDoubles ==
    [][Running("augment") =>
         LET n == Len(train_X)
         IN /\ Len(train_y) = n
            /\ Len(train_X') = 2 * n
            /\ Len(train_y') = 2 * n
            /\ SubSeq(train_X', 1, n) = train_X
            /\ SubSeq(train_y', 1, n) = train_y
            /\ \A k \in 1..n : train_y'[k] = train_y'[k + n]]_vars

(* an augmented training set that holds both labels *)
C7_Witness ==
    /\ pc = "done"
    /\ Len(train_X) >= 4
    /\ \E a, b \in 1..Len(train_y) : train_y[a] = 1 /\ train_y[b] = 0
    /\ \E k \in 1..Len(train_X) : train_X[k].aug # "none"

(* C8: a label row whose window lies wholly inside its scene and holds no  *)
(* no-data pixel appends exactly one tile, the 256x256 window around the   *)
(* row's centre, with label 1 for a vessel and 0 otherwise; every label    *)
(* row appends zero or one tile.                                           *)
C8_PositiveExtraction ==
    [][(Running("train_extract") /\ si <= NumScenes) =>
         LET id == training_scene_ids[si]
             scene == TrainScene(id)
             rw == RowsOf(train_y_df, id)[ri]
             row == rw.detect_scene_row
             col == rw.detect_scene_column
         IN /\ Len(train_X') - Len(train_X) \in {0, 1}
            /\ Len(train_y') = Len(train_X')
            /\ (WindowInside(scene, row, col) /\ ~WindowHasNoData(scene, row, col)) =>
                 /\ err' = "none"
                 /\ train_X' = Append(train_X,
                       [of |-> train_scenes[id], aug |-> "none",
                        r0 |-> row - W, r1 |-> row + W,
                        c0 |-> col - W, c1 |-> col + W])
                 /\ train_y' = Append(train_y, IF rw.is_vessel THEN 1 ELSE 0)]_vars

(* a vessel row and a non-vessel row have each given a whole tile *)
C8_Witness ==
    /\ \E k \in FromLabels : train_y[k] = 1 /\ Height(train_X[k]) = 2 * W
    /\ \E k \in FromLabels : train_y[k] = 0 /\ Width(train_X[k]) = 2 * W
    /\ pc = "train_extract"

(* C9: every centre the sampler has used lies in [W, rows-W) x             *)
(* [W, cols-W) of its scene, and its window is the whole 256x256 square    *)
(* around it, inside the scene.                                            *)
C9_SamplerWindowsInside ==
    \A k \in FromSampler :
       LET scene == TrainScene(train_src[k].id)
           cx == train_src[k].row
           cy == train_src[k].col
           t == train_X[k]
       IN /\ W <= cx /\ cx < scene.rows - W
          /\ W <= cy /\ cy < scene.cols - W
          /\ t.r0 = cx - W /\ t.r1 = cx + W /\ t.c0 = cy - W /\ t.c1 = cy + W
          /\ 0 <= t.r0 /\ t.r1 <= scene.rows /\ 0 <= t.c0 /\ t.c1 <= scene.cols
          /\ Height(t) = 2 * W /\ Width(t) = 2 * W

(* the sampler has used the last centre of the range *)
C9_Witness ==
    \E k \in FromSampler :
       train_src[k].row = TrainScene(train_src[k].id).rows - W - 1

(* C10, as stated: normalization of a tile set whose maximum equals its    *)
(* minimum never completes with undefined pixels.                          *)
C10_ZeroVarianceReported ==
    train_norm.kind # "nan" /\ val_norm.kind # "nan"

----------------------------------------------------------------------------
(* the pixel values of a tile set before normalization *)
PixelsOf(X, list) == UNION {Values(X[k], list[X[k].of]) : k \in 1..Len(X)}

(* the fraction a/b equals the integer ratio c/d, b and d positive *)
SameFraction(a, b, c, d) == b > 0 /\ d > 0 /\ a * d = c * b

(* a tile set whose normalization has run, with smallest pixel m and       *)
(* largest pixel M, m < M: every pixel x has become (x - m) / (M - m),     *)
(* which lies in [0, 1] and gives x back when multiplied by M - m and      *)
(* added to m                                                              *)
ScaledByOwnRange(X, list, norm) ==
    LET S == PixelsOf(X, list)
        m == CHOOSE a \in S : \A x \in S : a <= x
        M == CHOOSE a \in S : \A x \in S : a >= x
    IN (norm.kind # "raw" /\ m < M) =>
         /\ norm.kind = "scaled"
         /\ \A x \in S :
               LET out == Pixel(x, norm)
               IN /\ SameFraction(out.num, out.den, x - m, M - m)
                  /\ 0 <= out.num /\ out.num <= out.den
                  /\ out.num * (M - m) + m * out.den = x * out.den

----------------------------------------------------------------------------
(* the row the training extraction loop visited last: the last row of the *)
(* last scene of training_scene_ids                                       *)
LastVisited ==
    LET rows == RowsOf(train_y_df, training_scene_ids[NumScenes])
    IN rows[Len(rows)]

(* the centres the sampler can draw in some raster, and the scene ids *)
Centres ==
    UNION {Randint(W, s.rows - W) \X Randint(W, s.cols - W) : s \in Rasters}
AllIds == {rw.scene_id : rw \in TrainRows}

(* the centre lies within W, on both axes, of the row rw *)
Near(rw, cx, cy) ==
    /\ Abs(rw.detect_scene_row - cx) < W
    /\ Abs(rw.detect_scene_column - cy) < W

(* C12: while the sampler runs, r is the last label the training           *)
(* extraction loop visited, and img_contains_label(x, y, id) is decided by *)
(* (x, y) and that one label alone when scene id has a label, whichever    *)
(* labels the scene has; it is False when scene id has no label.           *)
C12_TestsLastLabelOnly ==
    (pc = "balance" /\ NumScenes > 0) =>
       /\ r = LastVisited
       /\ \A c \in Centres : \A id \in AllIds :
             ImgContainsLabel(c[1], c[2], id) =
                IF RowsOf(train_y_df, id) = <<>>
                THEN FALSE
                ELSE Near(LastVisited, c[1], c[2])

(* The sampler has appended a tile whose centre is near a label of its own *)
(* scene and away from the last label visited, and a scene without labels  *)
(* is answered False for a centre near the last label visited.             *)
C12_Witness ==
    /\ pc = "balance" /\ NumScenes > 0
    /\ \E k \in FromSampler :
          LET rows == RowsOf(train_y_df, train_src[k].id)
          IN /\ ~Near(r, train_src[k].row, train_src[k].col)
             /\ \E n \in 1..Len(rows) : Near(rows[n], train_src[k].row, train_src[k].col)
    /\ \E c \in Centres : \E id \in AllIds :
          /\ RowsOf(train_y_df, id) = <<>>
          /\ Near(r, c[1], c[2])
          /\ ~ImgContainsLabel(c[1], c[2], id)

----------------------------------------------------------------------------
(* C13, as stated: each dictionary maps every scene id to the raster read  *)
(* from that id's own file, whatever the order in which the ids first      *)
(* appear in the label table and also when a listed scene has no row, and  *)
(* every tile cut for a label comes from the scene the label names.        *)
C13_OwnRaster ==
    /\ \A id \in DOMAIN train_scenes : train_files[train_scenes[id]] = id
    /\ \A id \in DOMAIN val_scenes : val_files[val_scenes[id]] = id
    /\ \A k \in FromLabels : train_files[train_X[k].of] = train_src[k].id
    /\ \A k \in 1..Len(val_X) : val_files[val_X[k].of] = val_src[k].id

====
